---- MODULE Spec2Model ----
(***************************************************************************)
(* A model of moreorless: unified_diff (src/moreorless/__init__.py),       *)
(* apply_single_file and its helpers (src/moreorless/patch.py) and the     *)
(* combined diff (src/moreorless/combined.py).                             *)
(*                                                                         *)
(* A Python str is modelled as a sequence of one-character strings, a      *)
(* list of lines as a sequence of such sequences.  Positions keep Python's *)
(* 0-based numbering; element i of a Python list is s[i + 1] here.         *)
(***************************************************************************)
EXTENDS Integers, Sequences, FiniteSets, TLC

VARIABLES
    pc,             \* which step of which call comes next
    astr, bstr, n,  \* the arguments of unified_diff
    buf,            \* unified_diff: the list buf before it is joined
    prefix,         \* lines put in front of astr before the patch is applied
    contents,       \* apply_single_file's contents
    patch,          \* apply_single_file's patch
    allow_offsets,  \* apply_single_file's allow_offsets
    lines,          \* _apply_hunks: the original lines
    hunks,          \* _apply_hunks: the hunks of the patch
    hunk_i,         \* _apply_hunks: how many hunks the loop has taken
    work,           \* _apply_hunks: the working buffer
    file_offset,    \* _apply_hunks: accumulation of delta
    prev_line,      \* _apply_hunks: where the previous hunk ended
    trace,          \* what each _context_match call of the run was given
    outcome,        \* what apply_single_file returned or raised
    cm,             \* one call of _context_match: arguments and result
    cd,             \* one call of combined_diff: arguments and results
    li              \* one call of Line.to_str: the Line, is_merge and the result

vars == <<pc, astr, bstr, n, buf, prefix, contents, patch, allow_offsets, lines,
          hunks, hunk_i, work, file_offset, prev_line, trace, outcome, cm, cd, li>>

patchVars == <<astr, bstr, n, buf, prefix, contents, patch, allow_offsets, lines,
               hunks, hunk_i, work, file_offset, prev_line, trace, outcome>>

-----------------------------------------------------------------------------
(* Bounds of the model.                                                    *)

\* unified_diff and apply_single_file: lines per text, context size, lines
\* put in front of the text
MaxLines == 3
MaxContext == 1
MaxPrefix == 2
\* a patch written by hand: its start number and the lines of its body
MaxStart == 3
MaxBody == 2
\* _context_match: lines of the file and of the context
MaxFile == 3
MaxCtxLines == 2
\* combined_diff: lines per text
MaxCombined == 3
\* Line: entries of contributions
MaxColumns == 4

-----------------------------------------------------------------------------
(* Python built-ins.                                                       *)

Max(x, y) == IF x >= y THEN x ELSE y

Min(x, y) == IF x <= y THEN x ELSE y

Abs(x) == IF x >= 0 THEN x ELSE -x

\* s[lo:up] for lo, up >= 0
Slice(s, lo, up) ==
    IF lo >= Min(up, Len(s)) THEN <<>> ELSE SubSeq(s, lo + 1, Min(up, Len(s)))

\* s[lo:]
From(s, lo) == Slice(s, lo, Len(s))

RECURSIVE Join(_)
\* "".join(parts)
Join(parts) ==
    IF parts = <<>> THEN <<>> ELSE Head(parts) \o Join(Tail(parts))

StartsWith(s, p) == Len(s) >= Len(p) /\ SubSeq(s, 1, Len(p)) = p

EndsWith(s, p) == Len(s) >= Len(p) /\ SubSeq(s, Len(s) - Len(p) + 1, Len(s)) = p

\* the line boundaries of str.splitlines among the characters of the model
\* ("\r\n" counts as one boundary)
LineBreaks == {"\n", "\r", "\f"}

\* the length of the first line of a non-empty s, its terminator included
FirstLineLen(s) ==
    LET B == {i \in 1..Len(s) : s[i] \in LineBreaks} IN
    IF B = {} THEN Len(s)
    ELSE LET i == CHOOSE x \in B : \A y \in B : x <= y IN
         IF s[i] = "\r" /\ i < Len(s) /\ s[i + 1] = "\n" THEN i + 1 ELSE i

RECURSIVE splitlines(_)
\* s.splitlines(True)
splitlines(s) ==
    IF s = <<>> THEN <<>>
    ELSE LET k == FirstLineLen(s) IN
         <<SubSeq(s, 1, k)>> \o splitlines(From(s, k))

Digits == <<"0", "1", "2", "3", "4", "5", "6", "7", "8", "9">>

IsDigit(c) == \E d \in 1..10 : Digits[d] = c

DigitValue(c) == (CHOOSE d \in 1..10 : Digits[d] = c) - 1

RECURSIVE IntToStr(_)
\* '{}'.format(k) for k >= 0
IntToStr(k) ==
    IF k < 10 THEN <<Digits[k + 1]>>
    ELSE IntToStr(k \div 10) \o <<Digits[(k % 10) + 1]>>

RECURSIVE StrToInt(_)
\* int(s) for a string of digits
StrToInt(s) ==
    IF Len(s) = 0 THEN 0
    ELSE 10 * StrToInt(SubSeq(s, 1, Len(s) - 1)) + DigitValue(s[Len(s)])

-----------------------------------------------------------------------------
(* difflib.SequenceMatcher(None, a, b), as the standard library computes   *)
(* it for sequences of fewer than 200 elements (no junk, no "popular"      *)
(* elements).  A block is <<i, j, k>>: a[i:i+k] == b[j:j+k].               *)

RECURSIVE RunEndingAt(_, _, _, _, _, _)
\* j2len: the length of the longest match ending with a[i] and b[j] that
\* starts at or after alo and blo
RunEndingAt(a, b, i, j, alo, blo) ==
    IF i < alo \/ j < blo \/ a[i + 1] # b[j + 1] THEN 0
    ELSE 1 + RunEndingAt(a, b, i - 1, j - 1, alo, blo)

RECURSIVE ScanLongest(_, _, _, _, _, _, _, _, _)
\* the two loops of find_longest_match from (i, j) on; best is the block
\* found so far, replaced only by a strictly longer one
ScanLongest(a, b, alo, ahi, blo, bhi, i, j, best) ==
    IF i >= ahi THEN best
    ELSE IF j >= bhi THEN ScanLongest(a, b, alo, ahi, blo, bhi, i + 1, blo, best)
    ELSE LET k == RunEndingAt(a, b, i, j, alo, blo) IN
         ScanLongest(a, b, alo, ahi, blo, bhi, i, j + 1,
                     IF k > best[3] THEN <<i - k + 1, j - k + 1, k>> ELSE best)

find_longest_match(a, b, alo, ahi, blo, bhi) ==
    ScanLongest(a, b, alo, ahi, blo, bhi, alo, blo, <<alo, blo, 0>>)

RECURSIVE MatchingBlocksIn(_, _, _, _, _, _)
\* the blocks get_matching_blocks collects for a[alo:ahi], b[blo:bhi], in
\* sorted order (the queue's order does not matter: the list is sorted)
MatchingBlocksIn(a, b, alo, ahi, blo, bhi) ==
    LET x == find_longest_match(a, b, alo, ahi, blo, bhi)
        i == x[1]
        j == x[2]
        k == x[3]
    IN  IF k = 0 THEN <<>>
        ELSE (IF alo < i /\ blo < j
              THEN MatchingBlocksIn(a, b, alo, i, blo, j) ELSE <<>>)
             \o <<x>>
             \o (IF i + k < ahi /\ j + k < bhi
                 THEN MatchingBlocksIn(a, b, i + k, ahi, j + k, bhi) ELSE <<>>)

RECURSIVE Collapse(_, _)
\* the loop of get_matching_blocks that merges adjacent blocks; cur is
\* <<i1, j1, k1>>
Collapse(blocks, cur) ==
    IF blocks = <<>> THEN (IF cur[3] # 0 THEN <<cur>> ELSE <<>>)
    ELSE LET x == Head(blocks) IN
         IF cur[1] + cur[3] = x[1] /\ cur[2] + cur[3] = x[2]
         THEN Collapse(Tail(blocks), <<cur[1], cur[2], cur[3] + x[3]>>)
         ELSE (IF cur[3] # 0 THEN <<cur>> ELSE <<>>) \o Collapse(Tail(blocks), x)

get_matching_blocks(a, b) ==
    Collapse(MatchingBlocksIn(a, b, 0, Len(a), 0, Len(b)), <<0, 0, 0>>)
        \o <<<<Len(a), Len(b), 0>>>>

RECURSIVE OpcodesFrom(_, _, _)
\* the loop of get_opcodes; an opcode is <<tag, i1, i2, j1, j2>>
OpcodesFrom(blocks, i, j) ==
    IF blocks = <<>> THEN <<>>
    ELSE LET ai == Head(blocks)[1]
             bj == Head(blocks)[2]
             size == Head(blocks)[3]
             tag == IF i < ai /\ j < bj THEN "replace"
                    ELSE IF i < ai THEN "delete"
                    ELSE IF j < bj THEN "insert"
                    ELSE ""
         IN  (IF tag # "" THEN <<<<tag, i, ai, j, bj>>>> ELSE <<>>)
             \o (IF size # 0
                 THEN <<<<"equal", ai, ai + size, bj, bj + size>>>> ELSE <<>>)
             \o OpcodesFrom(Tail(blocks), ai + size, bj + size)

get_opcodes(a, b) == OpcodesFrom(get_matching_blocks(a, b), 0, 0)

\* get_grouped_opcodes: the fixup of a leading and a trailing equal opcode
FixupCodes(codes0, ctx) ==
    LET codes == IF codes0 = <<>> THEN <<<<"equal", 0, 1, 0, 1>>>> ELSE codes0
        c1 == codes[1]
        fixed1 == IF c1[1] = "equal"
                  THEN [codes EXCEPT ![1] = <<c1[1], Max(c1[2], c1[3] - ctx), c1[3],
                                              Max(c1[4], c1[5] - ctx), c1[5]>>]
                  ELSE codes
        cl == fixed1[Len(fixed1)]
    IN  IF cl[1] = "equal"
        THEN [fixed1 EXCEPT ![Len(fixed1)] =
                 <<cl[1], cl[2], Min(cl[3], cl[2] + ctx), cl[4], Min(cl[5], cl[4] + ctx)>>]
        ELSE fixed1

RECURSIVE GroupCodes(_, _, _)
\* the loop of get_grouped_opcodes: the groups it yields
GroupCodes(codes, group, ctx) ==
    IF codes = <<>>
    THEN IF group # <<>> /\ ~(Len(group) = 1 /\ group[1][1] = "equal")
         THEN <<group>> ELSE <<>>
    ELSE LET c == Head(codes) IN
         IF c[1] = "equal" /\ c[3] - c[2] > ctx + ctx
         THEN <<Append(group, <<c[1], c[2], Min(c[3], c[2] + ctx),
                                c[4], Min(c[5], c[4] + ctx)>>)>>
              \o GroupCodes(Tail(codes),
                            <<<<c[1], Max(c[2], c[3] - ctx), c[3],
                                Max(c[4], c[5] - ctx), c[5]>>>>, ctx)
         ELSE GroupCodes(Tail(codes), Append(group, c), ctx)

get_grouped_opcodes(a, b, ctx) == GroupCodes(FixupCodes(get_opcodes(a, b), ctx), <<>>, ctx)

\* difflib._format_range_unified
format_range_unified(start, stop) ==
    LET beginning == start + 1
        length == stop - start
    IN  IF length = 1 THEN IntToStr(beginning)
        ELSE IntToStr(IF length = 0 THEN beginning - 1 ELSE beginning)
             \o <<",">> \o IntToStr(length)

\* each line of ls with the character c in front
Prefixed(c, ls) == [i \in 1..Len(ls) |-> <<c>> \o ls[i]]

RECURSIVE GroupBody(_, _, _)
\* the body lines difflib.unified_diff yields for one group
GroupBody(a, b, group) ==
    IF group = <<>> THEN <<>>
    ELSE LET c == Head(group) IN
         (IF c[1] = "equal" THEN Prefixed(" ", Slice(a, c[2], c[3]))
          ELSE (IF c[1] \in {"replace", "delete"}
                THEN Prefixed("-", Slice(a, c[2], c[3])) ELSE <<>>)
               \o (IF c[1] \in {"replace", "insert"}
                   THEN Prefixed("+", Slice(b, c[4], c[5])) ELSE <<>>))
         \o GroupBody(a, b, Tail(group))

RECURSIVE GroupsText(_, _, _)
\* the lines difflib.unified_diff yields for the groups, header line first
GroupsText(a, b, groups) ==
    IF groups = <<>> THEN <<>>
    ELSE LET g == Head(groups)
             first == g[1]
             last == g[Len(g)]
         IN  <<<<"@", "@", " ", "-">> \o format_range_unified(first[2], last[3])
               \o <<" ", "+">> \o format_range_unified(first[4], last[5])
               \o <<" ", "@", "@", "\n">>>>
             \o GroupBody(a, b, g)
             \o GroupsText(a, b, Tail(groups))

\* difflib.unified_diff(a, b, fromfile, tofile, n=ctx): the lines it yields;
\* nothing at all when no group is yielded
difflib_unified_diff(a, b, fromfile, tofile, ctx) ==
    LET groups == get_grouped_opcodes(a, b, ctx) IN
    IF groups = <<>> THEN <<>>
    ELSE << <<"-", "-", "-", " ">> \o fromfile \o <<"\n">>,
            <<"+", "+", "+", " ">> \o tofile \o <<"\n">> >>
         \o GroupsText(a, b, groups)

-----------------------------------------------------------------------------
(* src/moreorless/__init__.py                                              *)

NoNewlineMarker ==
    <<"\\", " ", "N", "o", " ", "n", "e", "w", "l", "i", "n", "e", " ", "a", "t",
      " ", "e", "n", "d", " ", "o", "f", " ", "f", "i", "l", "e">>

\* the loop of unified_diff over the generator's lines: what goes into buf
\* for one line
BufFor(line) ==
    IF EndsWith(line, <<"\n">>) THEN <<line>>
    ELSE <<line, <<"\n">> \o NoNewlineMarker \o <<"\n">>>>

RECURSIVE BufOf(_)
BufOf(gen) == IF gen = <<>> THEN <<>> ELSE BufFor(Head(gen)) \o BufOf(Tail(gen))

\* os.path.isabs on a POSIX path
isabs(filename) == StartsWith(filename, <<"/">>)

\* unified_diff with the two header lines put into buf before the loop
unified_diff_buf_headerFirst(a, b, filename, ctx) ==
    LET a_filename == IF isabs(filename) THEN filename ELSE <<"a", "/">> \o filename
        b_filename == IF isabs(filename) THEN filename ELSE <<"b", "/">> \o filename
        gen == difflib_unified_diff(splitlines(a), splitlines(b),
                                    a_filename, b_filename, ctx)
    IN  << <<"-", "-", "-", " ">> \o a_filename \o <<"\n">>,
           <<"+", "+", "+", " ">> \o b_filename \o <<"\n">> >>
        \o BufOf(From(gen, 2))

\* the list buf of unified_diff before it is joined
unified_diff_buf(a, b, filename, ctx) ==
    LET a_filename == IF isabs(filename) THEN filename ELSE <<"a", "/">> \o filename
        b_filename == IF isabs(filename) THEN filename ELSE <<"b", "/">> \o filename
    IN  BufOf(difflib_unified_diff(splitlines(a), splitlines(b),
                                   a_filename, b_filename, ctx))

unified_diff(a, b, filename, ctx) == Join(unified_diff_buf(a, b, filename, ctx))

-----------------------------------------------------------------------------
(* src/moreorless/patch.py                                                 *)
(*                                                                         *)
(* A raised exception is a record [exc, msg, at]: exc is the class         *)
(* ("PatchException", "ContextException", or Python's own "IndexError"),   *)
(* msg the start of its message and at the position the message names.     *)

NoExc == [exc |-> "none", msg |-> "", at |-> 0]

Raise(class, message, position) == [exc |-> class, msg |-> message, at |-> position]

RECURSIVE DigitsEnd(_, _)
\* the first position (1-based) at or after p of s that holds no digit
DigitsEnd(s, p) ==
    IF p <= Len(s) /\ IsDigit(s[p]) THEN DigitsEnd(s, p + 1) ELSE p

\* s holds lit at position p (1-based)
LitAt(s, p, lit) == p + Len(lit) - 1 <= Len(s) /\ SubSeq(s, p, p + Len(lit) - 1) = lit

\* POSITION_LINE_RE.match(position_line): <<matched, the four numbers>>,
\* a missing length read as "1"
parse_position_line(position_line) ==
    LET s == position_line
        e1 == DigitsEnd(s, 5)
        has2 == LitAt(s, e1, <<",">>) /\ DigitsEnd(s, e1 + 1) > e1 + 1
        e2 == IF has2 THEN DigitsEnd(s, e1 + 1) ELSE e1
        e3 == DigitsEnd(s, e2 + 2)
        has4 == LitAt(s, e3, <<",">>) /\ DigitsEnd(s, e3 + 1) > e3 + 1
        e4 == IF has4 THEN DigitsEnd(s, e3 + 1) ELSE e3
    IN  IF /\ LitAt(s, 1, <<"@", "@", " ", "-">>)
           /\ e1 > 5
           /\ LitAt(s, e2, <<" ", "+">>)
           /\ e3 > e2 + 2
           /\ LitAt(s, e4, <<" ", "@", "@">>)
        THEN <<TRUE, <<StrToInt(SubSeq(s, 5, e1 - 1)),
                       IF has2 THEN StrToInt(SubSeq(s, e1 + 1, e2 - 1)) ELSE 1,
                       StrToInt(SubSeq(s, e2 + 2, e3 - 1)),
                       IF has4 THEN StrToInt(SubSeq(s, e3 + 1, e4 - 1)) ELSE 1>>>>
        ELSE <<FALSE, <<>>>>

RECURSIVE SplitFrom(_, _, _)
\* the loop of _split_hunks; cur is <<>> while hunk is None and <<hunk>>
\* after; the result is [exc, hunks]
SplitFrom(diff_lines, done, cur) ==
    IF diff_lines = <<>>
    THEN [exc |-> NoExc,
          hunks |-> IF cur # <<>> /\ cur[1].lines # <<>> THEN done \o cur ELSE done]
    ELSE LET line == Head(diff_lines)
             header == StartsWith(line, <<"@", "@">>)
             parsed == parse_position_line(line)
             done1 == IF header THEN done \o cur ELSE done
             cur1 == IF header THEN <<[position |-> parsed[2], lines |-> <<>>]>> ELSE cur
         IN  IF header /\ ~parsed[1]
             THEN [exc |-> Raise("PatchException", "Position line", 0), hunks |-> <<>>]
             ELSE IF cur1 = <<>>
             THEN [exc |-> Raise("PatchException", "Lines without hunk header", 0),
                   hunks |-> <<>>]
             ELSE SplitFrom(Tail(diff_lines), done1,
                            <<[cur1[1] EXCEPT !.lines = Append(@, line)]>>)

split_hunks(diff_lines) == SplitFrom(diff_lines, <<>>, <<>>)

NoNewlinePrefix == SubSeq(NoNewlineMarker, 1, 12)

\* the line above a "No newline" marker without its newline
StripNewline(line) ==
    IF EndsWith(line, <<"\r", "\n">>) THEN SubSeq(line, 1, Len(line) - 2)
    ELSE SubSeq(line, 1, Max(Len(line) - 1, 0))

RECURSIVE MeldFrom(_, _)
\* the loop "for i in range(len(tmp) - 1, 0, -1)" of _apply_hunks from i down
MeldFrom(tmp, i) ==
    IF i <= 0 THEN tmp
    ELSE IF StartsWith(tmp[i + 1], NoNewlinePrefix)
    THEN MeldFrom(SubSeq(tmp, 1, i - 1) \o <<StripNewline(tmp[i])>>
                      \o SubSeq(tmp, i + 2, Len(tmp)), i - 1)
    ELSE MeldFrom(tmp, i - 1)

Meld(hunk_lines) == MeldFrom(hunk_lines, Len(hunk_lines) - 1)

\* all(context_lines[j] == file_lines[t + j] for j in range(cl))
MatchesAt(file_lines, context_lines, t) ==
    \A j \in 0..(Len(context_lines) - 1) : context_lines[j + 1] = file_lines[t + j + 1]

RECURSIVE ProbeFrom_rightFirst(_, _, _, _, _, _, _)
\* the loop of _context_match with the candidate on the right tried first
ProbeFrom_rightFirst(file_lines, context_lines, range_start, range_end, start, di, stop) ==
    LET cl == Len(context_lines)
        t1 == start - di
        t2 == start + di
    IN  IF di >= stop THEN <<"None", 0>>
        ELSE IF t2 + cl <= range_end /\ MatchesAt(file_lines, context_lines, t2)
        THEN <<"match", t2>>
        ELSE IF t1 >= range_start /\ MatchesAt(file_lines, context_lines, t1)
        THEN <<"match", t1>>
        ELSE ProbeFrom_rightFirst(file_lines, context_lines, range_start, range_end,
                                  start, di + 1, stop)

RECURSIVE ProbeFrom(_, _, _, _, _, _, _)
\* the loop of _context_match from distance di on: <<"match", i>> or
\* <<"None", 0>>
ProbeFrom(file_lines, context_lines, range_start, range_end, start, di, stop) ==
    LET cl == Len(context_lines)
        t1 == start - di
        t2 == start + di
    IN  IF di >= stop THEN <<"None", 0>>
        ELSE IF t1 >= range_start /\ MatchesAt(file_lines, context_lines, t1)
        THEN <<"match", t1>>
        ELSE IF t2 + cl <= range_end /\ MatchesAt(file_lines, context_lines, t2)
        THEN <<"match", t2>>
        ELSE ProbeFrom(file_lines, context_lines, range_start, range_end, start,
                       di + 1, stop)

\* the preconditions of _context_match without the two checks of start
context_error_noStartCheck(file_lines, context_lines, range_start, range_end, start) ==
    IF ~(range_start >= 0) THEN 1
    ELSE IF ~(range_end >= range_start) THEN 2
    ELSE IF ~(range_end <= Len(file_lines)) THEN 3
    ELSE 0

\* the number of the first precondition of _context_match that fails, or 0
context_error(file_lines, context_lines, range_start, range_end, start) ==
    IF ~(range_start >= 0) THEN 1
    ELSE IF ~(range_end >= range_start) THEN 2
    ELSE IF ~(range_end <= Len(file_lines)) THEN 3
    ELSE IF ~(start >= range_start) THEN 4
    ELSE IF ~(start <= range_end - Len(context_lines)) THEN 5
    ELSE 0

\* _context_match with a loop that stops once the left side is exhausted
context_match_leftOnly(file_lines, context_lines, range_start, range_end, start) ==
    LET err == context_error(file_lines, context_lines, range_start, range_end, start)
    IN  IF err # 0 THEN <<"ContextException", err>>
        ELSE ProbeFrom(file_lines, context_lines, range_start, range_end, start, 0,
                       start - range_start + 1)

\* _context_match: <<"match", i>>, <<"None", 0>> or <<"ContextException", k>>
context_match(file_lines, context_lines, range_start, range_end, start) ==
    LET cl == Len(context_lines)
        err == context_error(file_lines, context_lines, range_start, range_end, start)
    IN  IF err # 0 THEN <<"ContextException", err>>
        ELSE ProbeFrom(file_lines, context_lines, range_start, range_end, start, 0,
                       Max(start - range_start + 1, range_end - start - cl + 1))

\* Python's list index: the element position w[i] names, or -1 for IndexError
ListIndex(w, i) ==
    IF 0 <= i /\ i < Len(w) THEN i
    ELSE IF -Len(w) <= i /\ i < 0 THEN i + Len(w)
    ELSE -1

\* del w[k] for a position k of w
DelAt(w, k) == SubSeq(w, 1, k) \o SubSeq(w, k + 2, Len(w))

\* w.insert(i, x): i is clamped the way list.insert clamps it
InsertAt(w, i, x) ==
    LET k == IF i < 0 THEN Max(i + Len(w), 0) ELSE Min(i, Len(w)) IN
    SubSeq(w, 1, k) \o <<x>> \o SubSeq(w, k + 1, Len(w))

RECURSIVE Replay(_, _, _)
\* the loop "for line in tmp[1:]" of _apply_hunks: [exc, work, cur_line]
Replay(body, w, cur_line) ==
    IF body = <<>> THEN [exc |-> NoExc, work |-> w, cur_line |-> cur_line]
    ELSE LET line == Head(body)
             k == ListIndex(w, cur_line)
             fail(e) == [exc |-> e, work |-> w, cur_line |-> cur_line]
         IN  IF StartsWith(line, <<"-">>)
             THEN IF k = -1 THEN fail(Raise("IndexError", "list index", cur_line))
                  ELSE IF From(line, 1) # w[k + 1]
                  THEN fail(Raise("PatchException", "DELETE fail", cur_line))
                  ELSE Replay(Tail(body), DelAt(w, k), cur_line)
             ELSE IF StartsWith(line, <<"+">>)
             THEN Replay(Tail(body), InsertAt(w, cur_line, From(line, 1)), cur_line + 1)
             ELSE IF StartsWith(line, <<" ">>)
             THEN IF k = -1 THEN fail(Raise("IndexError", "list index", cur_line))
                  ELSE IF From(line, 1) # w[k + 1]
                  THEN fail(Raise("PatchException", "EQUAL fail", cur_line))
                  ELSE Replay(Tail(body), w, cur_line + 1)
             ELSE IF StartsWith(line, <<"?">>)
             THEN Replay(Tail(body), w, cur_line)
             ELSE fail(Raise("PatchException", "Unknown line", cur_line))

\* the correction with the two starts exchanged: a zero new-length moves the
\* old-start, a zero old-length the new-start
CorrectedPosition_swapped(position) ==
    LET p1 == IF position[4] = 0 THEN [position EXCEPT ![1] = @ + 1] ELSE position
    IN  IF p1[2] = 0 THEN [p1 EXCEPT ![3] = @ + 1] ELSE p1

\* the zero-length correction of _apply_hunks
CorrectedPosition(position) ==
    LET p1 == IF position[4] = 0 THEN [position EXCEPT ![3] = @ + 1] ELSE position
    IN  IF p1[2] = 0 THEN [p1 EXCEPT ![1] = @ + 1] ELSE p1

\* tmp2 = [t[1:] for t in tmp if t[0] in (" ", "-")]
ContextLines(tmp) ==
    LET keep == SelectSeq(tmp, LAMBDA t : t[1] \in {" ", "-"}) IN
    [i \in 1..Len(keep) |-> From(keep[i], 1)]

\* one pass of the loop "for hunk in hunks" of _apply_hunks on the state
\* (w, offset, prev): [exc, work, file_offset, prev_line, call], call being
\* the arguments and result of the _context_match call, if one was made
ApplyHunk(w, offset, prev, hunk, offsets) ==
    LET pos == CorrectedPosition(hunk.position)
        cur_line == pos[1] + offset - 1
        tmp == Meld(hunk.lines)
        searched == offsets /\ \A i \in 1..Len(tmp) : tmp[i] # <<>>
        tmp2 == IF searched THEN ContextLines(tmp) ELSE <<>>
        new_line == IF searched THEN context_match(w, tmp2, prev, Len(w), cur_line)
                    ELSE <<"match", cur_line>>
        call == IF searched
                THEN <<[range_start |-> prev, range_end |-> Len(w), start |-> cur_line,
                        cl |-> Len(tmp2), result |-> new_line]>>
                ELSE <<>>
        stop(e) == [exc |-> e, work |-> w, file_offset |-> offset, prev_line |-> prev,
                    call |-> call]
        r == Replay(Tail(tmp), w, new_line[2])
    IN  IF offsets /\ ~searched
        THEN stop(Raise("IndexError", "string index", cur_line))
        ELSE IF new_line[1] = "ContextException"
        THEN stop(Raise("ContextException", "context error", new_line[2]))
        ELSE IF new_line[1] = "None"
        THEN stop(Raise("PatchException", "Failed to apply with offset", cur_line))
        ELSE IF r.exc # NoExc THEN stop(r.exc)
        ELSE [exc |-> NoExc, work |-> r.work,
              file_offset |-> offset + pos[4] - pos[2], prev_line |-> r.cur_line,
              call |-> call]

RECURSIVE ApplyHunks(_, _, _, _, _)
\* _apply_hunks from the state (w, offset, prev) on: [exc, work]
ApplyHunks(w, offset, prev, hs, offsets) ==
    IF hs = <<>> THEN [exc |-> NoExc, work |-> w]
    ELSE LET r == ApplyHunk(w, offset, prev, Head(hs), offsets) IN
         IF r.exc # NoExc THEN [exc |-> r.exc, work |-> w]
         ELSE ApplyHunks(r.work, r.file_offset, r.prev_line, Tail(hs), offsets)

\* apply_single_file: [exc, value], value being the returned string
apply_single_file(text, diff, offsets) ==
    LET split == split_hunks(From(splitlines(diff), 2))
        r == ApplyHunks(splitlines(text), 0, 0, split.hunks, offsets)
    IN  IF split.exc # NoExc THEN [exc |-> split.exc, value |-> <<>>]
        ELSE IF r.exc # NoExc THEN [exc |-> r.exc, value |-> <<>>]
        ELSE [exc |-> NoExc, value |-> Join(r.work)]

-----------------------------------------------------------------------------
(* src/moreorless/combined.py                                              *)
(*                                                                         *)
(* A row of _contributions is [symbols, text, kind, key]: symbols and text *)
(* are the tuple the code builds; kind ("common" or "inserted") and key    *)
(* (the index into common_lines the row was built for) only record where   *)
(* the row came from, and nothing the code computes reads them.            *)

\* helper that makes a new item for every call
HelperSet_alwaysNew(entries, text, si) ==
    Append(entries, [text |-> text, counts |-> {si}])

\* helper(text, dest_idx)[si] = 1 on the dict of one dest_idx, kept as the
\* sequence of its items in insertion order: [text, counts], counts being the
\* set of keys of the inner dict
HelperSet(entries, text, si) ==
    IF \E k \in 1..Len(entries) : entries[k].text = text
    THEN [k \in 1..Len(entries) |->
             IF entries[k].text = text
             THEN [entries[k] EXCEPT !.counts = @ \cup {si}] ELSE entries[k]]
    ELSE Append(entries, [text |-> text, counts |-> {si}])

RECURSIVE InsertRange(_, _, _, _, _, _)
\* "for i in range(j1, j2): helper(src_lines[i], i1)[si] = 1"
InsertRange(inserted, src_lines, j1, j2, i1, si) ==
    IF j1 >= j2 THEN inserted
    ELSE InsertRange([inserted EXCEPT ![i1 + 1] = HelperSet(@, src_lines[j1 + 1], si)],
                     src_lines, j1 + 1, j2, i1, si)

RECURSIVE OverOpcodes(_, _, _, _)
\* the loop of _contributions over the opcodes of one file; st is
\* [common_contributions, inserted_lines]
OverOpcodes(st, codes, src_lines, si) ==
    IF codes = <<>> THEN st
    ELSE LET c == Head(codes)
             cc == IF c[1] = "equal"
                   THEN [i \in 1..Len(st.common_contributions) |->
                            IF c[2] < i /\ i <= c[3]
                            THEN [st.common_contributions[i] EXCEPT ![si + 1] = 1]
                            ELSE st.common_contributions[i]]
                   ELSE st.common_contributions
             ins == IF c[1] \in {"insert", "replace"}
                    THEN InsertRange(st.inserted_lines, src_lines, c[4], c[5], c[2], si)
                    ELSE st.inserted_lines
         IN  OverOpcodes([common_contributions |-> cc, inserted_lines |-> ins],
                         Tail(codes), src_lines, si)

RECURSIVE OverFiles(_, _, _, _)
\* the loop "for si, src in enumerate(files)" of _contributions from si on
OverFiles(st, files, common_lines, si) ==
    IF si >= Len(files) THEN st
    ELSE LET src_lines == splitlines(files[si + 1]) IN
         OverFiles(OverOpcodes(st, get_opcodes(common_lines, src_lines), src_lines, si),
                   files, common_lines, si + 1)

\* the rows appended for the dict inserted_lines[i]
InsertedRows(entries, width, i) ==
    [k \in 1..Len(entries) |->
        [symbols |-> [a \in 1..width |-> IF (a - 1) \in entries[k].counts THEN 1 ELSE 0],
         text |-> entries[k].text, kind |-> "inserted", key |-> i]]

\* the row appended for common_lines[i], if there is such a line
CommonRow(st, common_lines, i) ==
    IF i < Len(common_lines)
    THEN <<[symbols |-> st.common_contributions[i + 1], text |-> common_lines[i + 1],
            kind |-> "common", key |-> i]>>
    ELSE <<>>

RECURSIVE ResultFrom_insertedFirst(_, _, _, _, _)
\* the last loop of _contributions with the two orientations exchanged
ResultFrom_insertedFirst(st, common_lines, width, merge, i) ==
    IF i > Len(common_lines) THEN <<>>
    ELSE (IF merge THEN CommonRow(st, common_lines, i) ELSE <<>>)
         \o InsertedRows(st.inserted_lines[i + 1], width, i)
         \o (IF ~merge THEN CommonRow(st, common_lines, i) ELSE <<>>)
         \o ResultFrom_insertedFirst(st, common_lines, width, merge, i + 1)

RECURSIVE ResultFrom(_, _, _, _, _)
\* the last loop of _contributions from i on
ResultFrom(st, common_lines, width, merge, i) ==
    IF i > Len(common_lines) THEN <<>>
    ELSE (IF ~merge THEN CommonRow(st, common_lines, i) ELSE <<>>)
         \o InsertedRows(st.inserted_lines[i + 1], width, i)
         \o (IF merge THEN CommonRow(st, common_lines, i) ELSE <<>>)
         \o ResultFrom(st, common_lines, width, merge, i + 1)

\* _contributions(files, common, merge)
contributions(files, common, merge) ==
    LET common_lines == splitlines(common)
        width == Len(files) + 1
        common_template == [a \in 1..width |-> IF a = width THEN 1 ELSE 0]
        st0 == [common_contributions |-> [i \in 1..Len(common_lines) |-> common_template],
                inserted_lines |-> [i \in 1..(Len(common_lines) + 1) |-> <<>>]]
    IN  ResultFrom(OverFiles(st0, files, common_lines, 0), common_lines, width, merge, 0)

\* sum(symbols) == len(symbols)
AllOnes(symbols) == \A a \in 1..Len(symbols) : symbols[a] = 1

RECURSIVE RunBack(_, _)
\* tmp_fwd[i]: how many rows of the run of all-context rows ending at row i
\* (1-based) there are
RunBack(rows, i) ==
    IF i < 1 \/ ~AllOnes(rows[i].symbols) THEN 0 ELSE 1 + RunBack(rows, i - 1)

RECURSIVE RunAhead(_, _)
\* tmp_rev[i]
RunAhead(rows, i) ==
    IF i > Len(rows) \/ ~AllOnes(rows[i].symbols) THEN 0 ELSE 1 + RunAhead(rows, i + 1)

\* not all(x == context_symbols for x, y in buf)
HasChange(rows) == \E k \in 1..Len(rows) : ~AllOnes(rows[k].symbols)

\* what "if buf and not all(...): yield buf" yields; first is the index
\* (0-based) in lines of the first row of buf, which the code does not keep
YieldBuf(st) ==
    IF st.buf # <<>> /\ HasChange(st.buf)
    THEN <<[kind |-> "hunk", rows |-> st.buf, count |-> 0, first |-> st.first]>>
    ELSE <<>>

RECURSIVE GroupFrom(_, _, _, _)
\* the second loop of _group from row i (1-based) on; st is
\* [context_flag, buf, first, omit_count]; the result is what is yielded
GroupFrom(rows, context, i, st) ==
    IF i > Len(rows) THEN YieldBuf(st)
    ELSE IF Min(RunBack(rows, i), RunAhead(rows, i)) <= context
    THEN (IF st.omit_count # 0
          THEN <<[kind |-> "snip", rows |-> <<>>, count |-> st.omit_count, first |-> 0]>>
          ELSE <<>>)
         \o GroupFrom(rows, context, i + 1,
                      [context_flag |-> 0, buf |-> Append(st.buf, rows[i]),
                       first |-> IF st.buf = <<>> THEN i - 1 ELSE st.first,
                       omit_count |-> 0])
    ELSE IF st.context_flag # 0
    THEN GroupFrom(rows, context, i + 1, [st EXCEPT !.omit_count = @ + 1])
    ELSE YieldBuf(st)
         \o GroupFrom(rows, context, i + 1,
                      [st EXCEPT !.buf = <<>>, !.context_flag = 1])

\* list(_group(lines, context)) for a non-empty lines; with no line at all
\* "assert symbols" reads a name that was never bound (see group_raises)
group(rows, context) ==
    GroupFrom(rows, context, 1,
              [context_flag |-> 0, buf |-> <<>>, first |-> 0, omit_count |-> 0])

\* _group raises UnboundLocalError at "assert symbols"
group_raises(rows) == rows = <<>>

\* c repeated k times
Repeat(c, k) == [i \in 1..k |-> c]

RECURSIVE JoinWith(_, _)
\* sep.join(parts)
JoinWith(sep, parts) ==
    IF parts = <<>> THEN <<>>
    ELSE IF Len(parts) = 1 THEN parts[1]
    ELSE parts[1] \o sep \o JoinWith(sep, Tail(parts))

\* sum(b[i] for (b, s) in block) for each column i
Lengths(rows, width) ==
    [a \in 1..width |-> Cardinality({k \in 1..Len(rows) : rows[k].symbols[a] = 1})]

\* the "@@@" line of combined_diff for one block
HunkHeader(position, lengths, merge) ==
    LET width == Len(position)
        counts0 == [a \in 1..width |->
                       IntToStr(position[a]) \o <<",">> \o IntToStr(lengths[a])]
        counts == IF ~merge THEN <<counts0[width]>> \o SubSeq(counts0, 1, width - 1)
                  ELSE counts0
        syms == IF ~merge THEN <<"-">> \o Repeat("+", width - 1)
                ELSE Repeat("-", width - 1) \o <<"+">>
    IN  Repeat("@", width) \o <<" ">>
        \o JoinWith(<<" ">>, [a \in 1..width |-> <<syms[a]>> \o counts[a]])
        \o <<" ">> \o Repeat("@", width) \o <<"\n">>

\* the line of combined_diff for one row of a block
RowText(row, merge) ==
    LET width == Len(row.symbols) IN
    IF AllOnes(row.symbols) THEN Repeat(" ", width - 1) \o row.text
    ELSE IF row.symbols = [a \in 1..width |-> IF a = width THEN 1 ELSE 0]
    THEN Repeat("-", width - 1) \o row.text
    ELSE [a \in 1..(width - 1) |->
             IF row.symbols[a] = 0 THEN " " ELSE IF merge THEN "-" ELSE "+"]
         \o row.text

RECURSIVE RenderFrom(_, _, _)
\* the loop of combined_diff over the blocks: [buf, headers]; headers keeps,
\* for each "@@@" line, the position it was written from and the index of the
\* block's first row
RenderFrom(blocks, position, merge) ==
    IF blocks = <<>> THEN [buf |-> <<>>, headers |-> <<>>]
    ELSE LET block == Head(blocks)
             width == Len(position)
             lengths == Lengths(block.rows, width)
             rest == RenderFrom(Tail(blocks),
                                IF block.kind = "hunk"
                                THEN [a \in 1..width |-> position[a] + lengths[a]]
                                ELSE [a \in 1..width |-> position[a] + block.count],
                                merge)
         IN  IF block.kind = "hunk"
             THEN [buf |-> <<HunkHeader(position, lengths, merge)>>
                           \o [k \in 1..Len(block.rows) |-> RowText(block.rows[k], merge)]
                           \o rest.buf,
                   headers |-> <<[position |-> position, first |-> block.first]>>
                               \o rest.headers]
             ELSE rest

Basename == <<"f", "i", "l", "e">>

\* the "---" / "+++" lines of combined_diff for count files
FileHeader(count, merge) ==
    [a \in 1..count |->
        IF (~merge /\ a = 1) \/ (merge /\ a < count)
        THEN <<"-", "-", "-", " ", "a", "/">> \o Basename \o <<"\n">>
        ELSE <<"+", "+", "+", " ", "b", "/">> \o Basename \o <<"\n">>]

\* files after "common = files.pop(-1)" or "common = files.pop(0)"
Popped(files, merge) ==
    IF merge THEN SubSeq(files, 1, Len(files) - 1) ELSE Tail(files)

PoppedCommon(files, merge) == IF merge THEN files[Len(files)] ELSE files[1]

-----------------------------------------------------------------------------
(* src/moreorless/combined_types.py                                        *)

\* Line.is_context
is_context(flags) ==
    Cardinality({a \in 1..Len(flags) : flags[a] = 1})
        = Len(flags)

NoNewlineNote ==
    <<"\\", " ", "n", "o", " ", "n", "e", "w", "l", "i", "n", "e", " ", "a", "t", " ",
      "e", "n", "d", " ", "o", "f", " ", "f", "i", "l", "e">>

\* Line.to_buf: what it appends to buf
to_buf(flags, line, is_merge) ==
    LET width == Len(flags)
        char == IF is_merge THEN "-" ELSE "+"
        body == IF is_context(flags)
                THEN <<Repeat(" ", width - 1) \o line>>
                ELSE [a \in 1..(width - 1) |->
                         IF flags[a] # flags[width]
                         THEN <<char>> ELSE <<" ">>]
                     \o <<line>>
    IN  IF EndsWith(line, <<"\n">>) THEN body
        ELSE body \o <<<<"\n">>, NoNewlineNote>>

\* Line.to_str
to_str(flags, line, is_merge) == Join(to_buf(flags, line, is_merge))

-----------------------------------------------------------------------------
(* The calls the model makes, one step at a time.                          *)

\* all sequences over S of at most k elements
SeqsUpTo(S, k) == UNION {[1..m -> S] : m \in 0..k}

\* the lines the texts given to unified_diff are made of: terminated by
\* "\n", by a lone "\r", by "\r\n", or not terminated
DiffLines == {<<"a", "\n">>, <<"b", "\n">>, <<"a", "\r">>, <<"b">>}

Texts == {Join(ls) : ls \in SeqsUpTo(DiffLines, MaxLines)}

\* lines that occur in no text of Texts
Prefixes == SeqsUpTo({<<"x", "\n">>}, MaxPrefix)

Filename == <<"f">>

NoCall == [file_lines |-> <<>>, context_lines |-> <<>>, range_start |-> 0,
           range_end |-> 0, start |-> 0, result |-> <<"pending", 0>>]

NoOutcome == [exc |-> NoExc, value |-> <<>>]

NoLine == [contributions |-> <<>>, line |-> <<>>, is_merge |-> FALSE, out |-> <<>>]

NoCombined == [files |-> <<>>, merge |-> FALSE, context |-> 0, list |-> <<>>,
               rows |-> <<>>, blocks |-> <<>>, headers |-> <<>>, out |-> <<>>,
               exc |-> "none"]

\* two texts and a context size are given to unified_diff
Init ==
    /\ pc = "unified_diff"
    /\ astr \in Texts /\ bstr \in Texts /\ n \in 0..MaxContext
    /\ buf = <<>>
    /\ prefix = <<>> /\ contents = <<>> /\ patch = <<>> /\ allow_offsets = TRUE
    /\ lines = <<>> /\ hunks = <<>> /\ hunk_i = 0 /\ work = <<>>
    /\ file_offset = 0 /\ prev_line = 0 /\ trace = <<>> /\ outcome = NoOutcome
    /\ cm = NoCall
    /\ cd = NoCombined
    /\ li = NoLine

\* patch = unified_diff(astr, bstr, filename, n)
UnifiedDiff ==
    /\ pc = "unified_diff"
    /\ buf' = unified_diff_buf(astr, bstr, Filename, n)
    /\ patch' = Join(buf')
    /\ pc' = "apply_single_file"
    /\ UNCHANGED <<astr, bstr, n, prefix, contents, allow_offsets, lines, hunks,
                   hunk_i, work, file_offset, prev_line, trace, outcome, cm, cd, li>>

\* apply_single_file(prefix + astr, patch, allow_offsets) up to the loop of
\* _apply_hunks
ApplySingleFile ==
    /\ pc = "apply_single_file"
    /\ \E p \in Prefixes, offsets \in BOOLEAN :
        LET text == Join(p) \o astr
            split == split_hunks(From(splitlines(patch), 2))
        IN  /\ prefix' = p
            /\ allow_offsets' = offsets
            /\ contents' = text
            /\ lines' = splitlines(text)
            /\ work' = splitlines(text)
            /\ hunks' = split.hunks
            /\ IF split.exc # NoExc
               THEN pc' = "raised" /\ outcome' = [exc |-> split.exc, value |-> <<>>]
               ELSE pc' = "apply_hunks" /\ outcome' = outcome
    /\ hunk_i' = 0 /\ file_offset' = 0 /\ prev_line' = 0
    /\ UNCHANGED <<astr, bstr, n, buf, patch, trace, cm, cd, li>>

\* one pass of the loop of _apply_hunks
ApplyHunkStep ==
    /\ pc = "apply_hunks"
    /\ hunk_i < Len(hunks)
    /\ LET r == ApplyHunk(work, file_offset, prev_line, hunks[hunk_i + 1],
                          allow_offsets)
       IN  /\ trace' = trace \o r.call
           /\ work' = r.work
           /\ file_offset' = r.file_offset
           /\ prev_line' = r.prev_line
           /\ IF r.exc # NoExc
              THEN /\ pc' = "raised"
                   /\ outcome' = [exc |-> r.exc, value |-> <<>>]
                   /\ hunk_i' = hunk_i
              ELSE /\ pc' = "apply_hunks"
                   /\ outcome' = outcome
                   /\ hunk_i' = hunk_i + 1
    /\ UNCHANGED <<astr, bstr, n, buf, prefix, contents, patch, allow_offsets,
                   lines, hunks, cm, cd, li>>

\* the loop of _apply_hunks is over: "".join(work) is returned
ApplyReturn ==
    /\ pc = "apply_hunks"
    /\ hunk_i = Len(hunks)
    /\ outcome' = [exc |-> NoExc, value |-> Join(work)]
    /\ pc' = "returned"
    /\ UNCHANGED <<astr, bstr, n, buf, prefix, contents, patch, allow_offsets,
                   lines, hunks, hunk_i, work, file_offset, prev_line, trace, cm, cd, li>>

Next == UnifiedDiff \/ ApplySingleFile \/ ApplyHunkStep \/ ApplyReturn

Spec == Init /\ [][Next]_vars

-----------------------------------------------------------------------------
(* apply_single_file on a patch written by hand: one hunk whose start      *)
(* number need not fit the contents, and whose new-length need not be the  *)
(* one of its body.                                                        *)

HandLines == {<<"f", "\n">>, <<"g", "\n">>}

HandTexts == {Join(ls) : ls \in SeqsUpTo(HandLines, MaxBody)}

HandBodyLines == {<<"-", "f", "\n">>, <<" ", "f", "\n">>, <<"+", "g", "\n">>}

HandBodies == SeqsUpTo(HandBodyLines, MaxBody) \ {<<>>}

\* how many lines of body start with one of the characters of cs
CountOf(body, cs) == Cardinality({i \in 1..Len(body) : body[i][1] \in cs})

\* the text of a patch of one hunk for old_start and body; the header states
\* the old-length of body, and its new-length plus slack
HandPatch(old_start, body, slack) ==
    <<"-", "-", "-", "\n", "+", "+", "+", "\n", "@", "@", " ", "-">>
        \o IntToStr(old_start) \o <<",">> \o IntToStr(CountOf(body, {" ", "-"}))
        \o <<" ", "+">>
        \o IntToStr(old_start) \o <<",">>
        \o IntToStr(CountOf(body, {" ", "+"}) + slack)
        \o <<" ", "@", "@", "\n">> \o Join(body)

InitHand ==
    /\ pc = "write_patch"
    /\ astr \in HandTexts
    /\ bstr = <<>> /\ n = 0 /\ buf = <<>>
    /\ prefix = <<>> /\ contents = <<>> /\ patch = <<>> /\ allow_offsets = TRUE
    /\ lines = <<>> /\ hunks = <<>> /\ hunk_i = 0 /\ work = <<>>
    /\ file_offset = 0 /\ prev_line = 0 /\ trace = <<>> /\ outcome = NoOutcome
    /\ cm = NoCall
    /\ cd = NoCombined
    /\ li = NoLine

\* a patch is written for astr
WritePatch ==
    /\ pc = "write_patch"
    /\ \E old_start \in 0..MaxStart, body \in HandBodies, slack \in 0..1 :
        patch' = HandPatch(old_start, body, slack)
    /\ pc' = "apply_single_file"
    /\ UNCHANGED <<astr, bstr, n, buf, prefix, contents, allow_offsets, lines, hunks,
                   hunk_i, work, file_offset, prev_line, trace, outcome, cm, cd, li>>

NextHand == WritePatch \/ ApplySingleFile \/ ApplyHunkStep \/ ApplyReturn

SpecHand == InitHand /\ [][NextHand]_vars

-----------------------------------------------------------------------------
(* _context_match called on its own.                                       *)

MatchLines == {<<"0">>, <<"1">>}

InitMatch ==
    /\ pc = "context_match"
    /\ \E fl \in SeqsUpTo(MatchLines, MaxFile), cl \in SeqsUpTo(MatchLines, MaxCtxLines),
          rs \in -1..MaxFile, re \in -1..(MaxFile + 1), st \in -1..(MaxFile + 1) :
        cm = [file_lines |-> fl, context_lines |-> cl, range_start |-> rs,
              range_end |-> re, start |-> st, result |-> <<"pending", 0>>]
    /\ astr = <<>> /\ bstr = <<>> /\ n = 0 /\ buf = <<>>
    /\ prefix = <<>> /\ contents = <<>> /\ patch = <<>> /\ allow_offsets = TRUE
    /\ lines = <<>> /\ hunks = <<>> /\ hunk_i = 0 /\ work = <<>>
    /\ file_offset = 0 /\ prev_line = 0 /\ trace = <<>> /\ outcome = NoOutcome
    /\ cd = NoCombined
    /\ li = NoLine

\* _context_match(file_lines, context_lines, range_start, range_end, start)
ContextMatch ==
    /\ pc = "context_match"
    /\ cm' = [cm EXCEPT !.result = context_match(cm.file_lines, cm.context_lines,
                                                 cm.range_start, cm.range_end,
                                                 cm.start)]
    /\ pc' = "context_match_done"
    /\ UNCHANGED <<patchVars, cd, li>>

NextMatch == ContextMatch

SpecMatch == InitMatch /\ [][NextMatch]_vars

-----------------------------------------------------------------------------
(* Properties of unified_diff and apply_single_file.                       *)

\* apply_single_file has returned or raised
Applied == pc \in {"returned", "raised"}

Returned(text) == pc = "returned" /\ outcome.exc = NoExc /\ outcome.value = text

\* C1: round trip: apply_single_file(a, unified_diff(a, b, filename, n)) with
\* allow_offsets = True returns exactly b, for all texts a and b, whatever
\* line terminators their lines carry.
C1_RoundTrip ==
    (Applied /\ prefix = <<>> /\ allow_offsets) => Returned(bstr)

\* a text none of whose lines ends with a lone "\r"
LFText(text) == \A i \in 1..Len(text) : text[i] # "\r"

\* C2: offset tolerance: with one or more lines p that occur in neither a nor
\* b put in front of a, apply_single_file(p + a, unified_diff(a, b, f, n))
\* with allow_offsets = True succeeds and returns p + b, also when the diff
\* has several hunks.  Stated for the diffs of two or more hunks between
\* texts whose lines end in "\n" (or not at all).
C2_OffsetTolerance ==
    (/\ Applied /\ prefix # <<>> /\ allow_offsets
     /\ LFText(astr) /\ LFText(bstr) /\ Len(hunks) >= 2)
        => Returned(Join(prefix) \o bstr)

\* C5: whenever apply_single_file does not return a text, what it raises is a
\* PatchException (ContextException is one), also when a "-" or " " line's
\* target position lies outside the working buffer.
C5_RaisesPatchException ==
    pc = "raised" => outcome.exc.exc \in {"PatchException", "ContextException"}

HeaderOnly ==
    <<"-", "-", "-", " ", "a", "/">> \o Filename \o <<"\n">>
        \o <<"+", "+", "+", " ", "b", "/">> \o Filename \o <<"\n">>

\* C6 as the claim states it: unified_diff(a, a, filename) is the two header
\* lines "--- a/filename" and "+++ b/filename" and no hunk.
C6_HeaderOnly ==
    (pc = "apply_single_file" /\ astr = bstr) => patch = HeaderOnly

\* C6 as amended: unified_diff(a, a, filename) is the empty string: no header
\* line and no hunk.
C6_EmptyDiff ==
    (pc = "apply_single_file" /\ astr = bstr) => (patch = <<>> /\ buf = <<>>)

C6_Witness == pc = "apply_single_file" /\ astr = bstr /\ Len(splitlines(astr)) >= 2

MarkerEntry == <<"\n">> \o NoNewlineMarker \o <<"\n">>

\* the line does not end with a line terminator
Unterminated(line) == line = <<>> \/ line[Len(line)] \notin LineBreaks

\* C7: in the output of unified_diff the marker "\ No newline at end of file"
\* directly follows a line exactly when that line is the last line of a or of
\* b and that text does not end with a line terminator, that is, exactly when
\* the line itself carries no line terminator.
C7_MarkerOnlyAfterUnterminated ==
    pc = "apply_single_file" =>
        \A i \in 1..Len(buf) :
            buf[i] # MarkerEntry =>
                ((i < Len(buf) /\ buf[i + 1] = MarkerEntry) <=> Unterminated(buf[i]))

-----------------------------------------------------------------------------
(* Properties of _context_match.                                           *)

\* the preconditions of the _context_match call of cm hold
CmPreconditions ==
    /\ cm.range_start >= 0
    /\ cm.range_end >= cm.range_start
    /\ cm.range_end <= Len(cm.file_lines)
    /\ cm.start >= cm.range_start
    /\ cm.start <= cm.range_end - Len(cm.context_lines)

\* the positions i of the window with file_lines[i : i + cl] == context_lines
CmMatches ==
    {i \in cm.range_start..(cm.range_end - Len(cm.context_lines)) :
        SubSeq(cm.file_lines, i + 1, i + Len(cm.context_lines)) = cm.context_lines}

CmReturned == pc = "context_match_done" /\ CmPreconditions

\* C3: when its preconditions hold, _context_match returns None if and only
\* if no position of the window matches, and otherwise returns a position of
\* the window that matches.
C3_FoundIffExists ==
    CmReturned =>
        /\ cm.result[1] \in {"None", "match"}
        /\ cm.result[1] = "None" <=> CmMatches = {}
        /\ cm.result[1] = "match" => cm.result[2] \in CmMatches

\* a match was found away from start, on its right
C3_Witness ==
    CmReturned /\ cm.result[1] = "match" /\ cm.result[2] > cm.start + 1

\* C4: the position _context_match returns is a nearest match to start, and
\* on equal distance the earlier one.
C4_NearestEarliest ==
    (CmReturned /\ cm.result[1] = "match") =>
        \A j \in CmMatches :
            \/ Abs(j - cm.start) > Abs(cm.result[2] - cm.start)
            \/ Abs(j - cm.start) = Abs(cm.result[2] - cm.start) /\ j >= cm.result[2]

\* two matches lie at the same distance on both sides of start
C4_Witness ==
    /\ CmReturned /\ cm.result[1] = "match" /\ cm.result[2] < cm.start
    /\ (2 * cm.start - cm.result[2]) \in CmMatches

-----------------------------------------------------------------------------
(* combined_diff(files, merge=merge, context=context), one step at a time. *)
(* cd.files is the list as the caller built it, cd.list the caller's list  *)
(* object as the call leaves it.                                           *)

CombinedLines == {<<"a", "\n">>, <<"b", "\n">>}

CombinedTexts == {Join(ls) : ls \in SeqsUpTo(CombinedLines, MaxCombined)}

\* the common text and one or two others
FileLists == [1..2 -> CombinedTexts] \cup [1..3 -> CombinedTexts]

InitCombined ==
    /\ pc = "combined_diff"
    /\ \E fs \in FileLists, m \in BOOLEAN, c \in 0..MaxContext :
        cd = [NoCombined EXCEPT !.files = fs, !.list = fs, !.merge = m, !.context = c]
    /\ astr = <<>> /\ bstr = <<>> /\ n = 0 /\ buf = <<>>
    /\ prefix = <<>> /\ contents = <<>> /\ patch = <<>> /\ allow_offsets = TRUE
    /\ lines = <<>> /\ hunks = <<>> /\ hunk_i = 0 /\ work = <<>>
    /\ file_offset = 0 /\ prev_line = 0 /\ trace = <<>> /\ outcome = NoOutcome
    /\ cm = NoCall
    /\ li = NoLine

\* combined_diff up to the call of _contributions: common is popped off the
\* caller's list and the rows are computed
CdContributions ==
    /\ pc = "combined_diff"
    /\ cd' = [cd EXCEPT !.list = Popped(cd.list, cd.merge),
                        !.rows = contributions(Popped(cd.list, cd.merge),
                                               PoppedCommon(cd.list, cd.merge),
                                               cd.merge)]
    /\ pc' = "group"
    /\ UNCHANGED <<patchVars, cm, li>>

\* _group(rows, context)
CdGroup ==
    /\ pc = "group"
    /\ IF group_raises(cd.rows)
       THEN cd' = [cd EXCEPT !.exc = "UnboundLocalError"] /\ pc' = "combined_raised"
       ELSE cd' = [cd EXCEPT !.blocks = group(cd.rows, cd.context)] /\ pc' = "render"
    /\ UNCHANGED <<patchVars, cm, li>>

\* the loop of combined_diff over the blocks, and the join
CdRender ==
    /\ pc = "render"
    /\ LET r == RenderFrom(cd.blocks, [a \in 1..(Len(cd.list) + 1) |-> 1], cd.merge)
       IN  cd' = [cd EXCEPT !.headers = r.headers,
                            !.out = Join(FileHeader(Len(cd.files), cd.merge) \o r.buf)]
    /\ pc' = "combined_done"
    /\ UNCHANGED <<patchVars, cm, li>>

NextCombined == CdContributions \/ CdGroup \/ CdRender

SpecCombined == InitCombined /\ [][NextCombined]_vars

-----------------------------------------------------------------------------
(* Properties of the combined diff.                                        *)

\* how many of the first k rows carry the flag of participant a
FlagsBefore(rows, k, a) == Cardinality({j \in 1..k : rows[j].symbols[a] = 1})

\* C8: in every hunk header of combined_diff each participant's start is 1
\* plus the number of rows of the whole contribution list that precede the
\* hunk's first row and carry that participant's flag.
C8_StartsCountPrecedingRows ==
    pc = "combined_done" =>
        \A h \in 1..Len(cd.headers) :
            \A a \in 1..Len(cd.files) :
                cd.headers[h].position[a]
                    = 1 + FlagsBefore(cd.rows, cd.headers[h].first, a)

RowsComputed == pc \in {"group", "render", "combined_done", "combined_raised"}

\* rows p and q are an inserted row and the common row of the same index
SameIndex(p, q) ==
    /\ cd.rows[p].kind = "inserted" /\ cd.rows[q].kind = "common"
    /\ cd.rows[p].key = cd.rows[q].key

\* C9 as the claim states it: the rows inserted at index i come before the
\* row of common[i] when merge is False and after it when merge is True.
C9_InsertedBeforeInDivergent ==
    RowsComputed =>
        \A p, q \in 1..Len(cd.rows) :
            SameIndex(p, q) => IF cd.merge THEN p > q ELSE p < q

\* C9 as amended: the rows inserted at index i come after the row of
\* common[i] when merge is False and before it when merge is True.
C9_InsertedAfterInDivergent ==
    RowsComputed =>
        \A p, q \in 1..Len(cd.rows) :
            SameIndex(p, q) => IF cd.merge THEN p < q ELSE p > q

\* rows were inserted at the index of a common line, under merge
C9_Witness ==
    /\ RowsComputed /\ cd.merge
    /\ \E p, q \in 1..Len(cd.rows) : SameIndex(p, q) /\ cd.rows[q].key >= 1

CdCommonLines == splitlines(PoppedCommon(cd.files, cd.merge))

CdVariants == Popped(cd.files, cd.merge)

\* variant si (0-based) inserts a line of the given text at index i: an
\* "insert" or "replace" opcode that starts at i holds it
Inserts(si, i, text) ==
    LET src_lines == splitlines(CdVariants[si + 1])
        codes == get_opcodes(CdCommonLines, src_lines)
    IN  \E c \in 1..Len(codes) :
            /\ codes[c][1] \in {"insert", "replace"}
            /\ codes[c][2] = i
            /\ \E j \in (codes[c][4] + 1)..codes[c][5] : src_lines[j] = text

\* two different variants insert the same text at index i
BothInsert(si, sj, i, text) ==
    si # sj /\ Inserts(si, i, text) /\ Inserts(sj, i, text)

\* the rows of the result inserted at index i with the given text
InsertedAt(i, text) ==
    {p \in 1..Len(cd.rows) :
        cd.rows[p].kind = "inserted" /\ cd.rows[p].key = i /\ cd.rows[p].text = text}

\* C10: when two different variants insert a line of the same text at the
\* same index, the result holds exactly one row for that text at that index,
\* with the flags of both variants set and the flag of common clear.
C10_SameInsertOneRow ==
    RowsComputed =>
        \A si, sj \in 0..(Len(CdVariants) - 1), i \in 0..Len(CdCommonLines),
           text \in CombinedLines :
            BothInsert(si, sj, i, text) =>
                /\ Cardinality(InsertedAt(i, text)) = 1
                /\ \A p \in InsertedAt(i, text) :
                    /\ cd.rows[p].symbols[si + 1] = 1
                    /\ cd.rows[p].symbols[sj + 1] = 1
                    /\ cd.rows[p].symbols[Len(cd.files)] = 0

C10_Witness ==
    /\ RowsComputed /\ Len(CdVariants) >= 2
    /\ \E i \in 1..Len(CdCommonLines), text \in CombinedLines :
        BothInsert(0, 1, i, text)

Grouped == pc \in {"render", "combined_done"}

Changed(k) == ~AllOnes(cd.rows[k].symbols)

\* rows s..e (1-based) are a run of all-context rows that lies between two
\* changed rows
RunBetweenChanges(s, e) ==
    /\ 1 < s /\ s <= e /\ e < Len(cd.rows)
    /\ Changed(s - 1) /\ Changed(e + 1)
    /\ \A k \in s..e : ~Changed(k)

\* block b is a hunk that holds row k (1-based)
HunkHolds(b, k) ==
    /\ cd.blocks[b].kind = "hunk"
    /\ cd.blocks[b].first < k /\ k <= cd.blocks[b].first + Len(cd.blocks[b].rows)

\* a Snip is yielded right after the hunk that holds row k
SnipAfterHunkOf(k) ==
    \E b \in 1..(Len(cd.blocks) - 1) :
        HunkHolds(b, k) /\ cd.blocks[b + 1].kind = "snip"

\* C11: in _group a run of all-context rows between two changed rows yields
\* a Snip between two hunks if and only if it is at least 2*context + 1 rows
\* long, and a run of 2*context rows or fewer stays whole inside one hunk.
C11_SnipIffLongRun ==
    Grouped =>
        \A s, e \in 1..Len(cd.rows) :
            RunBetweenChanges(s, e) =>
                /\ SnipAfterHunkOf(s - 1) <=> (e - s + 1 >= 2 * cd.context + 1)
                /\ (e - s + 1 <= 2 * cd.context) =>
                       \E b \in 1..Len(cd.blocks) :
                           HunkHolds(b, s - 1) /\ HunkHolds(b, e + 1)

\* the hunks of combined_diff's output, each as its rendered rows in order
HunkBodies(blocks, merge) ==
    LET hs == SelectSeq(blocks, LAMBDA b : b.kind = "hunk") IN
    [h \in 1..Len(hs) |->
        [k \in 1..Len(hs[h].rows) |-> RowText(hs[h].rows[k], merge)]]

\* the hunks of combined_diff(files, merge=merge, context=context)
combined_diff_hunks(files, merge, context) ==
    HunkBodies(group(contributions(Popped(files, merge), PoppedCommon(files, merge),
                                   merge),
                     context),
               merge)

\* a line of a two-file diff with "-" and "+" exchanged
Mirrored(line) ==
    IF line[1] = "-" THEN <<"+">> \o Tail(line)
    ELSE IF line[1] = "+" THEN <<"-">> \o Tail(line)
    ELSE line

HowMany(body, line) == Cardinality({k \in 1..Len(body) : body[k] = line})

\* the two hunks hold the same lines, "-" in one being "+" in the other
MirroredHunks(h1, h2) ==
    /\ Len(h1) = Len(h2)
    /\ \A k \in 1..Len(h1) : HowMany(h1, h1[k]) = HowMany(h2, Mirrored(h1[k]))

\* C12: for R and V, combined_diff([R, V], merge=False) and
\* combined_diff([V, R], merge=True) have the same hunks of the same lines,
\* a line with "-" in one carrying "+" in the other and context lines being
\* the same in both.
C12_Duality ==
    (pc = "combined_done" /\ ~cd.merge /\ Len(cd.files) = 2) =>
        LET mine == HunkBodies(cd.blocks, FALSE)
            other == combined_diff_hunks(<<cd.files[2], cd.files[1]>>, TRUE, cd.context)
        IN  /\ Len(mine) = Len(other)
            /\ \A h \in 1..Len(mine) : MirroredHunks(mine[h], other[h])

\* C13: _context_match raises ContextException, and returns neither a
\* position nor None, whenever one of its preconditions is violated:
\* range_start < 0, range_end < range_start, range_end > len(file_lines),
\* start < range_start or start > range_end - len(context_lines).
C13_RaisesOnViolatedPrecondition ==
    (pc = "context_match_done" /\ ~CmPreconditions) =>
        cm.result[1] = "ContextException"

\* only the last precondition is violated, and a match lies in the window
C13_Witness ==
    /\ pc = "context_match_done"
    /\ cm.range_start >= 0 /\ cm.range_end >= cm.range_start
    /\ cm.range_end <= Len(cm.file_lines) /\ cm.start >= cm.range_start
    /\ cm.start > cm.range_end - Len(cm.context_lines)
    /\ CmMatches # {}
    /\ cm.result = <<"ContextException", 5>>

-----------------------------------------------------------------------------
(* Line(contributions, line).to_str(is_merge) called on its own.           *)

LineTexts == {<<"f", "\n">>, <<"f">>, <<>>}

InitLine ==
    /\ pc = "to_str"
    /\ \E k \in 1..MaxColumns :
        \E c \in [1..k -> {0, 1}], t \in LineTexts, m \in BOOLEAN :
            li = [contributions |-> c, line |-> t, is_merge |-> m, out |-> <<>>]
    /\ astr = <<>> /\ bstr = <<>> /\ n = 0 /\ buf = <<>>
    /\ prefix = <<>> /\ contents = <<>> /\ patch = <<>> /\ allow_offsets = TRUE
    /\ lines = <<>> /\ hunks = <<>> /\ hunk_i = 0 /\ work = <<>>
    /\ file_offset = 0 /\ prev_line = 0 /\ trace = <<>> /\ outcome = NoOutcome
    /\ cm = NoCall
    /\ cd = NoCombined

\* Line.to_str(is_merge)
LineToStr ==
    /\ pc = "to_str"
    /\ li' = [li EXCEPT !.out = to_str(li.contributions, li.line, li.is_merge)]
    /\ pc' = "to_str_done"
    /\ UNCHANGED <<patchVars, cm, cd>>

NextLine == LineToStr

SpecLine == InitLine /\ [][NextLine]_vars

\* only the common reference, the last entry, holds the row
CommonOnly(flags) ==
    /\ flags[Len(flags)] = 1
    /\ \A a \in 1..(Len(flags) - 1) : flags[a] = 0

\* C14: a row that only the common reference holds is rendered with "+" in
\* every prefix column in merge orientation and with "-" in every prefix
\* column in divergent orientation.
C14_CommonOnlySymbol ==
    (pc = "to_str_done" /\ CommonOnly(li.contributions)) =>
        \A a \in 1..(Len(li.contributions) - 1) :
            li.out[a] = IF li.is_merge THEN "+" ELSE "-"

-----------------------------------------------------------------------------
(* Properties of the loop of _apply_hunks.                                 *)

\* the loop of _apply_hunks is about to take hunk number hunk_i + 1
TakesHunk == pc = "apply_hunks" /\ hunk_i < Len(hunks)

Bump(length) == IF length = 0 THEN 1 ELSE 0

\* the step called _context_match, with cur_line as start
Searched == Len(trace') = Len(trace) + 1

\* C15 as the claim states it: a declared new-length of 0 adds 1 to the
\* declared old-start before cur_line is computed, and a declared old-length
\* of 0 adds 1 to the declared new-start.
C15_NewLengthBumpsOldStart ==
    [][TakesHunk =>
        LET position == hunks[hunk_i + 1].position
            pos == CorrectedPosition(position)
        IN  /\ pos[1] = position[1] + Bump(position[4])
            /\ pos[3] = position[3] + Bump(position[2])
            /\ Searched => trace'[Len(trace')].start
                               = position[1] + Bump(position[4]) + file_offset - 1]_vars

\* C15 as amended: a declared old-length of 0 adds 1 to the declared
\* old-start before cur_line is computed, and a declared new-length of 0 adds
\* 1 to the declared new-start.
C15_OldLengthBumpsOldStart ==
    [][TakesHunk =>
        LET position == hunks[hunk_i + 1].position
            pos == CorrectedPosition(position)
        IN  /\ pos[1] = position[1] + Bump(position[2])
            /\ pos[3] = position[3] + Bump(position[4])
            /\ Searched => trace'[Len(trace')].start
                               = position[1] + Bump(position[2]) + file_offset - 1]_vars

\* a hunk of old-length 0 and new-length above 0 was searched for at its old-start
C15_Witness ==
    /\ allow_offsets /\ hunk_i >= 1 /\ Len(trace) >= 1
    /\ hunks[1].position[2] = 0 /\ hunks[1].position[4] > 0
    /\ trace[1].start = hunks[1].position[1]

\* C16: apply_single_file with allow_offsets = True never calls
\* _context_match with a violated precondition: every hunk is found in the
\* window or the call fails with "Failed to apply with offset", and no
\* ContextException leaves apply_single_file.
C16_NoContextException ==
    allow_offsets =>
        /\ \A k \in 1..Len(trace) : trace[k].result[1] # "ContextException"
        /\ pc = "raised" => outcome.exc.exc # "ContextException"

\* C17: after each hunk that _apply_hunks has applied, file_offset is the
\* number of lines inserted minus the number deleted so far, that is
\* len(work) - len(lines).
C17_FileOffsetIsNetGrowth ==
    (pc \in {"apply_hunks", "returned"} /\ hunk_i >= 1) =>
        file_offset = Len(work) - Len(lines)

-----------------------------------------------------------------------------
(* Further properties of the combined diff.                                *)

\* C18: combined_diff leaves its files argument as it was: after the call
\* the caller's list has the same length and the same elements as before.
C18_FilesUnchanged ==
    pc \in {"combined_done", "combined_raised"} => cd.list = cd.files

\* the texts of the rows whose flag of column a is set, in row order
ColumnTexts(rows, a) ==
    LET kept == SelectSeq(rows, LAMBDA r : r.symbols[a] = 1) IN
    [k \in 1..Len(kept) |-> kept[k].text]

\* the lines of the participant of column a: a variant, or common for the
\* last column
ParticipantLines(a) ==
    IF a <= Len(CdVariants) THEN splitlines(CdVariants[a]) ELSE CdCommonLines

\* C19: in the rows _contributions returns, the texts of the rows with the
\* flag of a participant set are, in row order, exactly that participant's
\* lines in their order: none lost, repeated or moved.
C19_ColumnsAreTheFiles ==
    RowsComputed =>
        \A a \in 1..Len(cd.files) : ColumnTexts(cd.rows, a) = ParticipantLines(a)

====
